---- MODULE Spec2Model ----
(***************************************************************************)
(* Voice coordination server (src/voice_coordination_server.py).           *)
(*                                                                         *)
(* The state is the VoiceCoordinationServer object: agents, websockets,    *)
(* voice_queue, current_speaker, speaking_start_time, plus the pending     *)
(* speech_timeout tasks and the running handle_websocket loops.  Every     *)
(* action is one whole handler: an inbound websocket message, a REST call, *)
(* a channel close, a timeout task waking up, or a janitor sweep.  The     *)
(* handlers are written as operators over a record holding the server's    *)
(* fields, so that the nested calls (send failure -> disconnect_agent ->   *)
(* handle_speech_complete -> process_voice_queue -> ...) are followed the  *)
(* way the interpreter follows them, exceptions included.                  *)
(***************************************************************************)
EXTENDS Integers, Sequences, FiniteSets, TLC

\* ---------------------------------------------------------------- inputs
Agents == {"a", "b"}          \* agent ids that clients connect under
None == "None"                \* Python None (no agent id is "None")
Absent == {}                  \* a key missing from an inbound dict ({v}: present)
DefaultPriority == 5          \* data.get("priority", 5)
Priorities == {DefaultPriority, 7}          \* priority values clients supply
Durations == {10}             \* estimated_duration values clients supply
ClientStatuses == {"idle", "speaking"}  \* status values clients send
\* the dicts a status_update / POST status carries
StatusData ==
    {[status |-> {st}, priority |-> Absent] : st \in ClientStatuses}
        \cup {[status |-> Absent, priority |-> {p}] : p \in Priorities \ {DefaultPriority}}
MaxRequests == 3              \* speak requests accepted in one run
DefaultDuration == 10         \* request.get("estimated_duration", 10.0)
AverageRemaining == 5         \* estimate_wait_time: total_wait += 5.0
TimeNow == "now"              \* the reading of time.time() (time is abstract)

VARIABLES
    agents,               \* self.agents: agent id -> [status, priority]
    websockets,           \* self.websockets: its keys, in insertion order
    voice_queue,          \* self.voice_queue: sequence of VoiceRequest
    current_speaker,      \* self.current_speaker: agent id or None
    speaking_start_time,  \* self.speaking_start_time: TimeNow or None
    timers,               \* speech_timeout tasks still asleep
    handlers,             \* agent ids with a running handle_websocket loop
    broken,               \* channels whose peer is gone: send_json raises
    next_id,              \* number of VoiceRequests created so far, plus 1
    open_turn,            \* <<agent, request>> of the speak_granted not yet completed
    turn_overlap,         \* a speak_granted was emitted while a turn was open
    turn_stray,           \* a speech_complete was emitted for no open turn
    granted,              \* the grants the last operation made, in order
    janitor_alive,        \* the cleanup_stale_agents task has not ended
    janitor_suspended,    \* <<agent, peer>>: the janitor's disconnect_agent(agent)
                          \* waits in the send of speech_complete to peer
    confirmed_agents,     \* agents with a registration_confirmed emitted and no
                          \* agent_disconnected emitted since
    served_ids,           \* the ids of the requests granted so far
    grants_made,          \* the number of grants made so far
    superseded,           \* agents with an older channel still open whose entry
                          \* a reconnect under the same id has replaced
    grant_suspended,      \* <<request>>: the grant of request waits in the send
                          \* of speak_granted to its agent
    hook                  \* a call of the client's voice_coordination_hook: its
                          \* position, its inputs and what it returned

vars == <<agents, websockets, voice_queue, current_speaker, speaking_start_time,
          timers, handlers, broken, next_id, open_turn,
          turn_overlap, turn_stray, granted, janitor_alive, janitor_suspended,
          confirmed_agents, served_ids, grants_made, superseded,
          grant_suspended, hook>>

\* ---------------------------------------------------------------- helpers
Contains(q, x) == \E i \in 1..Len(q) : q[i] = x

RECURSIVE Without(_, _)
Without(q, x) ==
    IF q = <<>> THEN <<>>
    ELSE IF Head(q) = x THEN Without(Tail(q), x)
    ELSE <<Head(q)>> \o Without(Tail(q), x)

DictDel(f, k) == [x \in (DOMAIN f) \ {k} |-> f[x]]

DictSet(f, k, v) == [x \in (DOMAIN f) \cup {k} |-> IF x = k THEN v ELSE f[x]]

\* dict key insertion: an existing key keeps its place
KeysSet(q, k) == IF Contains(q, k) THEN q ELSE Append(q, k)

\* dict.get(key, default) on an optional input
Get(opt, default) == IF opt = Absent THEN default ELSE CHOOSE v \in opt : TRUE

Opt(S) == {Absent} \cup {{v} : v \in S}

Event(type, agent, request_id, timeout) ==
    [type |-> type, agent |-> agent, request_id |-> request_id, timeout |-> timeout]

Emit(s, e) == [s EXCEPT !.emitted = Append(@, e)]

Raise(s, exc) == [s EXCEPT !.raised = exc]

\* agent.last_heartbeat = datetime.now(...): the agents whose last_heartbeat
\* an operation set to the time of the operation
Touch(s, agent_id) == [s EXCEPT !.touched = @ \cup {agent_id}]

\* ---------------------------------------------------------------- handlers
RECURSIVE send_to_agent(_, _, _)
RECURSIVE SendEach(_, _, _)
RECURSIVE broadcast(_, _)
RECURSIVE broadcast_except(_, _, _)
RECURSIVE disconnect_agent(_, _)
RECURSIVE handle_speech_complete(_, _, _)
RECURSIVE process_voice_queue(_)

\* send_to_agent: a failing send_json is caught and disconnects the target;
\* an exception raised by that disconnect_agent leaves the except clause.
send_to_agent(s, agent_id, message) ==
    IF s.raised # None THEN s
    ELSE IF ~Contains(s.websockets, agent_id) THEN s
    ELSE IF agent_id \in broken THEN disconnect_agent(s, agent_id)
    ELSE s

\* the loop body of broadcast / broadcast_except over list(self.websockets.keys())
SendEach(s, keys, message) ==
    IF keys = <<>> \/ s.raised # None THEN s
    ELSE SendEach(send_to_agent(s, Head(keys), message), Tail(keys), message)

broadcast(s, message) ==
    IF s.raised # None THEN s
    ELSE SendEach(Emit(s, message), s.websockets, message)

broadcast_except(s, except_agent_id, message) ==
    IF s.raised # None THEN s
    ELSE SendEach(Emit(s, message), Without(s.websockets, except_agent_id), message)

\* bookkeeping of a grant: the request taken and the requests left pending
GrantRecord(s, request) == [request |-> request, pending |-> s.voice_queue]

\* disconnect_agent, line 307: the queue filter
NotOfAgent_KeepAll(q, agent_id) == q

NotOfAgent(q, agent_id) == SelectSeq(q, LAMBDA req : req.agent_id # agent_id)

\* disconnect_agent, lines 306-317: what follows the completion of the turn
RemoveAgent(s, agent_id) ==
    IF s.raised # None THEN s
    ELSE
    LET s3 == [s EXCEPT !.voice_queue = NotOfAgent(@, agent_id)]
    IN  IF agent_id \notin DOMAIN s3.agents
        THEN Raise(s3, "KeyError")                   \* del self.agents[agent_id]
        ELSE broadcast([s3 EXCEPT !.agents = DictDel(@, agent_id)],
                       Event("agent_disconnected", agent_id, 0, FALSE))

disconnect_agent(s, agent_id) ==
    IF s.raised # None THEN s
    ELSE
    LET s1 == [s EXCEPT !.websockets = Without(@, agent_id)]
    IN  IF agent_id \notin DOMAIN s1.agents THEN s1
        ELSE
        LET s2 == IF s1.current_speaker = agent_id
                  THEN handle_speech_complete(s1, agent_id, FALSE)
                  ELSE s1
        IN  RemoveAgent(s2, agent_id)

\* handle_speech_complete, lines 246-250
ClearSpeaker_KeepStartTime(s, agent_id) ==
    [s EXCEPT !.current_speaker = None,
              !.agents = IF agent_id \in DOMAIN @
                         THEN [@ EXCEPT ![agent_id].status = "idle"]
                         ELSE @]

ClearSpeaker(s, agent_id) ==
    [s EXCEPT !.current_speaker = None,
              !.speaking_start_time = None,
              !.agents = IF agent_id \in DOMAIN @
                         THEN [@ EXCEPT ![agent_id].status = "idle"]
                         ELSE @]

\* handle_speech_complete without the check of line 243
handle_speech_complete_NoGuard(s, agent_id, timeout) ==
    IF s.raised # None THEN s
    ELSE process_voice_queue(broadcast(ClearSpeaker(s, agent_id),
                                       Event("speech_complete", agent_id, 0, timeout)))

handle_speech_complete_NoDrain(s, agent_id, timeout) ==
    IF s.raised # None THEN s
    ELSE IF s.current_speaker # agent_id THEN s
    ELSE broadcast(ClearSpeaker(s, agent_id),
                   Event("speech_complete", agent_id, 0, timeout))

handle_speech_complete(s, agent_id, timeout) ==
    IF s.raised # None THEN s
    ELSE IF s.current_speaker # agent_id THEN s
    ELSE
    LET s1 == ClearSpeaker(s, agent_id)
        s2 == broadcast(s1, Event("speech_complete", agent_id, 0, timeout))
    IN  process_voice_queue(s2)

\* process_voice_queue, line 200: the agent of a popped request is available
Available(s, agent_id) ==
    agent_id \in DOMAIN s.agents /\ Contains(s.websockets, agent_id)

\* process_voice_queue, line 193: the early return
NothingToGrant_IgnoreSpeaker(s) == s.voice_queue = <<>>

NothingToGrant(s) == s.current_speaker # None \/ s.voice_queue = <<>>

\* process_voice_queue, line 197: self.voice_queue.pop(0)
Pop_Last(q) == [request |-> q[Len(q)], rest |-> SubSeq(q, 1, Len(q) - 1)]

Pop_Keep(q) == [request |-> Head(q), rest |-> q]

Pop(q) == [request |-> Head(q), rest |-> Tail(q)]

process_voice_queue(s) ==
    IF s.raised # None THEN s
    ELSE IF NothingToGrant(s) THEN s
    ELSE
    LET next_request == Pop(s.voice_queue).request
        agent_id == next_request.agent_id
        s1 == [s EXCEPT !.voice_queue = Pop(@).rest]
    IN  IF agent_id \notin DOMAIN s1.agents \/ ~Contains(s1.websockets, agent_id)
        THEN s1
        ELSE
        LET s2 == [s1 EXCEPT !.current_speaker = agent_id,
                             !.speaking_start_time = TimeNow,
                             !.agents = [@ EXCEPT ![agent_id].status = "speaking"],
                             !.granted = Append(@, GrantRecord(s1, next_request))]
            speak_granted == Event("speak_granted", agent_id, next_request.id, FALSE)
            s3 == send_to_agent(Emit(s2, speak_granted), agent_id, speak_granted)
        IN  IF s3.raised # None THEN s3
            ELSE IF agent_id \notin DOMAIN s3.agents
            THEN Raise(s3, "KeyError")               \* self.agents[agent_id].name
            ELSE
            LET s4 == broadcast_except(s3, agent_id,
                          Event("agent_speaking", agent_id, next_request.id, FALSE))
            IN  IF s4.raised # None THEN s4
                ELSE [s4 EXCEPT !.timers = @ \cup {[request_id |-> next_request.id,
                                                    agent_id |-> agent_id]}]

\* ---------------------------------------------------------------- requests
register_agent(s, agent_id, data) ==
    LET agent == [status |-> "idle", priority |-> Get(data.priority, DefaultPriority)]
        s1 == Touch([s EXCEPT !.agents = DictSet(@, agent_id, agent)], agent_id)
        confirmed == Event("registration_confirmed", agent_id, 0, FALSE)
        s2 == send_to_agent(IF Contains(s1.websockets, agent_id)
                            THEN Emit(s1, confirmed) ELSE s1,
                            agent_id, confirmed)
    IN  broadcast_except(s2, agent_id, Event("agent_joined", agent_id, 0, FALSE))

\* queue_voice_request, lines 168-177: before the first request of lower priority
RECURSIVE InsertByPriority(_, _)
RECURSIVE InsertByPriority_Ge(_, _)
InsertByPriority_Ge(q, voice_request) ==
    IF q = <<>> THEN <<voice_request>>
    ELSE IF voice_request.priority >= Head(q).priority THEN <<voice_request>> \o q
    ELSE <<Head(q)>> \o InsertByPriority_Ge(Tail(q), voice_request)

InsertByPriority_Append(q, voice_request) == Append(q, voice_request)

InsertByPriority(q, voice_request) ==
    IF q = <<>> THEN <<voice_request>>
    ELSE IF voice_request.priority > Head(q).priority THEN <<voice_request>> \o q
    ELSE <<Head(q)>> \o InsertByPriority(Tail(q), voice_request)

\* estimate_wait_time: the loop stops at the request; it runs over the whole
\* queue when the request is not in it
RECURSIVE DurationsAhead(_, _)
RECURSIVE DurationsAhead_Inclusive(_, _)
DurationsAhead_Inclusive(q, request_id) ==
    IF q = <<>> THEN 0
    ELSE IF Head(q).id = request_id THEN Head(q).estimated_duration
    ELSE Head(q).estimated_duration + DurationsAhead_Inclusive(Tail(q), request_id)

DurationsAhead(q, request_id) ==
    IF q = <<>> \/ Head(q).id = request_id THEN 0
    ELSE Head(q).estimated_duration + DurationsAhead(Tail(q), request_id)

estimate_wait_time(s, request_id) ==
    (IF s.current_speaker # None /\ s.speaking_start_time # None
     THEN AverageRemaining ELSE 0)
        + DurationsAhead(s.voice_queue, request_id)

\* self.voice_queue.index(voice_request) + 1 if voice_request in self.voice_queue else 0
QueuePosition_ZeroBased(q, voice_request) ==
    IF Contains(q, voice_request)
    THEN (CHOOSE i \in 1..Len(q) : q[i] = voice_request) - 1
    ELSE 0

QueuePosition(q, voice_request) ==
    IF Contains(q, voice_request)
    THEN CHOOSE i \in 1..Len(q) : q[i] = voice_request /\ \A j \in 1..(i - 1) : q[j] # voice_request
    ELSE 0

\* queue_voice_request without the call of line 182
queue_voice_request_NoDrain(s, voice_request) ==
    LET s1 == [s EXCEPT !.voice_queue = InsertByPriority(@, voice_request)]
    IN  [s1 EXCEPT !.response =
            [kind |-> "queued",
             request_id |-> voice_request.id,
             queue_position |-> QueuePosition(s1.voice_queue, voice_request),
             estimated_wait |-> estimate_wait_time(s1, voice_request.id)]]

queue_voice_request(s, voice_request) ==
    LET s1 == process_voice_queue(
                  [s EXCEPT !.voice_queue = InsertByPriority(@, voice_request)])
    IN  IF s1.raised # None THEN s1
        ELSE [s1 EXCEPT !.response =
                 [kind |-> "queued",
                  request_id |-> voice_request.id,
                  queue_position |-> QueuePosition(s1.voice_queue, voice_request),
                  estimated_wait |-> estimate_wait_time(s1, voice_request.id)]]

request_speak(s, agent_id, request) ==
    IF agent_id \notin DOMAIN s.agents THEN Raise(s, "HTTPException")
    ELSE queue_voice_request(s,
             [id |-> next_id,
              agent_id |-> agent_id,
              priority |-> Get(request.priority, s.agents[agent_id].priority),
              estimated_duration |-> Get(request.estimated_duration, DefaultDuration)])

\* update_agent_status without the check of line 266: an unknown agent gets a record
update_agent_status_Create(s, agent_id, status_data) ==
    LET agent == IF agent_id \in DOMAIN s.agents THEN s.agents[agent_id]
                 ELSE [status |-> "idle", priority |-> DefaultPriority]
        updated == [status |-> Get(status_data.status, agent.status),
                    priority |-> Get(status_data.priority, agent.priority)]
        s1 == broadcast(Touch([s EXCEPT !.agents = DictSet(@, agent_id, updated)],
                              agent_id),
                        Event("agent_status_update", agent_id, 0, FALSE))
    IN  IF s1.raised # None THEN s1
        ELSE [s1 EXCEPT !.response = [kind |-> "success"]]

update_agent_status(s, agent_id, status_data) ==
    IF agent_id \notin DOMAIN s.agents
    THEN [s EXCEPT !.response = [kind |-> "error", detail |-> "Agent not found"]]
    ELSE
    LET agent == s.agents[agent_id]
        updated == [status |-> Get(status_data.status, agent.status),
                    priority |-> Get(status_data.priority, agent.priority)]
        s1 == broadcast(Touch([s EXCEPT !.agents = DictSet(@, agent_id, updated)],
                              agent_id),
                        Event("agent_status_update", agent_id, 0, FALSE))
    IN  IF s1.raised # None THEN s1
        ELSE [s1 EXCEPT !.response = [kind |-> "success"]]

update_heartbeat(s, agent_id) ==
    IF agent_id \in DOMAIN s.agents THEN Touch(s, agent_id) ELSE s

\* process_agent_message: handle_speak_request is not a method of the server,
\* so the attribute lookup raises
process_agent_message_Strict(s, agent_id, data) ==
    CASE data.type = "register" -> register_agent(s, agent_id, data)
      [] data.type = "heartbeat" -> update_heartbeat(s, agent_id)
      [] data.type = "speak_request" -> Raise(s, "AttributeError")
      [] data.type = "status_update" -> update_agent_status(s, agent_id, data)
      [] data.type = "speech_complete" -> handle_speech_complete(s, agent_id, FALSE)
      [] OTHER -> Raise(s, "ValueError")

process_agent_message(s, agent_id, data) ==
    CASE data.type = "register" -> register_agent(s, agent_id, data)
      [] data.type = "heartbeat" -> update_heartbeat(s, agent_id)
      [] data.type = "speak_request" -> Raise(s, "AttributeError")
      [] data.type = "status_update" -> update_agent_status(s, agent_id, data)
      [] data.type = "speech_complete" -> handle_speech_complete(s, agent_id, FALSE)
      [] OTHER -> s

\* get_coordination_status of a server state
CountStatus(ags, status) == Cardinality({a \in DOMAIN ags : ags[a].status = status})

get_coordination_status(s) ==
    [total_agents |-> Cardinality(DOMAIN s.agents),
     current_speaker |-> s.current_speaker,
     queue_length |-> Len(s.voice_queue),
     agents_by_status |-> [st \in {"idle", "speaking", "listening", "busy"} |->
                               CountStatus(s.agents, st)]]

\* ---------------------------------------------------------------- the state machine
Server ==
    [agents |-> agents, websockets |-> websockets, voice_queue |-> voice_queue,
     current_speaker |-> current_speaker, speaking_start_time |-> speaking_start_time,
     timers |-> timers, granted |-> <<>>, emitted |-> <<>>, raised |-> None,
     response |-> [kind |-> "none"], touched |-> {}, loop_ended |-> FALSE]

\* the turn bookkeeping over the emitted events, in emission order: a
\* speak_granted opens the turn of its agent and request, a speech_complete
\* for that agent closes it
OpenFor(open, agent_id) == open # <<>> /\ open[1] = agent_id

RECURSIVE TurnFold(_, _)
TurnFold(t, evs) ==
    IF evs = <<>> THEN t
    ELSE LET e == Head(evs)
             t1 == CASE e.type = "speak_granted" ->
                            [open |-> <<e.agent, e.request_id>>,
                             overlap |-> t.overlap \/ t.open # <<>>,
                             stray |-> t.stray]
                      [] e.type = "speech_complete" ->
                            [open |-> IF OpenFor(t.open, e.agent) THEN <<>> ELSE t.open,
                             overlap |-> t.overlap,
                             stray |-> t.stray \/ ~OpenFor(t.open, e.agent)]
                      [] OTHER -> t
         IN  TurnFold(t1, Tail(evs))

\* the registrations over the emitted events, in emission order: a
\* registration_confirmed opens the registration of its agent, an
\* agent_disconnected closes it; unmatched records an agent_disconnected for
\* an agent with no open registration
RECURSIVE RegistrationFold(_, _)
RegistrationFold(r, evs) ==
    IF evs = <<>> THEN r
    ELSE LET e == Head(evs)
             r1 == CASE e.type = "registration_confirmed" ->
                            [open |-> r.open \cup {e.agent}, unmatched |-> r.unmatched]
                      [] e.type = "agent_disconnected" ->
                            [open |-> r.open \ {e.agent},
                             unmatched |-> r.unmatched \/ e.agent \notin r.open]
                      [] OTHER -> r
         IN  RegistrationFold(r1, Tail(evs))

Registrations(s) ==
    RegistrationFold([open |-> confirmed_agents, unmatched |-> FALSE], s.emitted)

Commit(s) ==
    LET t == TurnFold([open |-> open_turn, overlap |-> turn_overlap,
                       stray |-> turn_stray], s.emitted)
    IN  /\ agents' = s.agents
        /\ confirmed_agents' = Registrations(s).open
        /\ served_ids' = served_ids \cup
                             {s.granted[i].request.id : i \in 1..Len(s.granted)}
        /\ grants_made' = grants_made + Len(s.granted)
        /\ websockets' = s.websockets
        /\ voice_queue' = s.voice_queue
        /\ current_speaker' = s.current_speaker
        /\ speaking_start_time' = s.speaking_start_time
        /\ timers' = s.timers
        /\ granted' = s.granted
        /\ open_turn' = t.open
        /\ turn_overlap' = t.overlap
        /\ turn_stray' = t.stray

\* ---------------------------------------------------------------- client hook
\* the inputs of a hook call (claude_code_voice_hook.py)
HookTypes == {"tool_call", "tool_result"}

\* tool names as sequences of words: `"converse" in tool_name`
ToolNames == {<<"converse">>, <<"mcp", "converse">>, <<"voice", "mode">>,
              <<"bash">>, << >>}

\* what requests.post gives: a 200 answer with its JSON body (the keys the hook
\* reads), an answer with another status, or an exception
HttpResults ==
    {[status |-> "200", granted |-> g, fallback |-> f] :
         g \in Opt(BOOLEAN), f \in Opt(BOOLEAN)}
        \cup {[status |-> st, granted |-> Absent, fallback |-> Absent] :
                  st \in {"404", "exception"}}

\* what websocket.recv gives, one after the other; "error" is a recv or
\* json.loads that raises; after the last one recv times out
Received == {"speak_granted", "speak_denied", "agent_speaking", "speech_complete",
             "error"}

MaxInbox == 2

RECURSIVE SeqsUpTo(_, _)
SeqsUpTo(S, n) ==
    IF n = 0 THEN {<< >>}
    ELSE LET shorter == SeqsUpTo(S, n - 1)
         IN  shorter \cup {Append(q, x) : q \in shorter, x \in S}

Inboxes == SeqsUpTo(Received, MaxInbox)

\* dict.get(key) used as a condition
Truthy(opt) == opt = {TRUE}

\* VoiceCoordinationClient.request_speak, lines 74-103
Client_request_speak(connected, http) ==
    IF ~connected THEN [granted |-> {TRUE}, fallback |-> {TRUE}]
    ELSE IF http.status = "exception" THEN [granted |-> {TRUE}, fallback |-> {TRUE}]
    ELSE IF http.status = "200"
    THEN [granted |-> http.granted, fallback |-> http.fallback]
    ELSE [granted |-> {FALSE}, fallback |-> Absent]

\* wait_for_permission, lines 110-125: the receive loop
RECURSIVE Receive(_)
RECURSIVE Receive_TimeoutDenies(_)
Receive_TimeoutDenies(inbox) ==
    IF inbox = << >> THEN FALSE
    ELSE IF Head(inbox) = "speak_granted" THEN TRUE
    ELSE IF Head(inbox) = "speak_denied" THEN FALSE
    ELSE IF Head(inbox) = "error" THEN TRUE
    ELSE Receive_TimeoutDenies(Tail(inbox))

Receive(inbox) ==
    IF inbox = << >> THEN TRUE                       \* asyncio.TimeoutError
    ELSE IF Head(inbox) = "speak_granted" THEN TRUE
    ELSE IF Head(inbox) = "speak_denied" THEN FALSE
    ELSE IF Head(inbox) = "error" THEN TRUE          \* except Exception
    ELSE Receive(Tail(inbox))

wait_for_permission(connected, inbox) ==
    IF ~connected THEN TRUE ELSE Receive(inbox)

\* what the hook returns: data itself, or data with skip_execution and a
\* result; statuses are the update_status calls, notify is the scheduled
\* notify_completion task
HookReturns(skip_execution, result, statuses, notify) ==
    [skip_execution |-> skip_execution, result |-> result,
     statuses |-> statuses, notify |-> notify]

Unchanged == HookReturns(FALSE, "data", << >>, FALSE)

\* lines 225-228
IsVoiceTool(tool_name) == Contains(tool_name, "converse") \/ Contains(tool_name, "voice")

\* voice_coordination_hook that does not wait for the permission
voice_coordination_hook_NoWait(h) ==
    IF h.hook_type # "tool_call" THEN Unchanged
    ELSE IF ~IsVoiceTool(h.tool_name) THEN Unchanged
    ELSE IF h.client_raises THEN Unchanged
    ELSE
    LET request_result == Client_request_speak(h.connected, h.http)
    IN  IF Truthy(request_result.granted)
        THEN HookReturns(FALSE, "data",
                         <<"requesting_speech", "speaking", "idle">>, TRUE)
        ELSE HookReturns(TRUE, "queued", <<"requesting_speech", "idle">>, FALSE)

\* voice_coordination_hook, lines 211-301
voice_coordination_hook(h) ==
    IF h.hook_type # "tool_call" THEN Unchanged
    ELSE IF ~IsVoiceTool(h.tool_name) THEN Unchanged
    ELSE IF h.client_raises THEN Unchanged           \* except Exception: return data
    ELSE
    LET request_result == Client_request_speak(h.connected, h.http)
    IN  IF Truthy(request_result.granted)
        THEN IF /\ ~Truthy(request_result.fallback)
                /\ ~wait_for_permission(h.connected, h.inbox)
             THEN HookReturns(TRUE, "denied", <<"requesting_speech", "idle">>, FALSE)
             ELSE HookReturns(FALSE, "data",
                              <<"requesting_speech", "speaking", "idle">>, TRUE)
        ELSE HookReturns(TRUE, "queued", <<"requesting_speech", "idle">>, FALSE)

HookCalls ==
    [pc : {"called"}, hook_type : HookTypes, tool_name : ToolNames,
     client_raises : BOOLEAN, connected : BOOLEAN, http : HttpResults,
     inbox : Inboxes, out : {Unchanged}]

HookIdle ==
    [pc |-> "idle", hook_type |-> "tool_call", tool_name |-> << >>,
     client_raises |-> FALSE, connected |-> FALSE,
     http |-> [status |-> "exception", granted |-> Absent, fallback |-> Absent],
     inbox |-> << >>, out |-> Unchanged]

Init ==
    /\ agents = << >>
    /\ websockets = << >>
    /\ voice_queue = << >>
    /\ current_speaker = None
    /\ speaking_start_time = None
    /\ timers = {}
    /\ handlers = {}
    /\ broken = {}
    /\ next_id = 1
    /\ open_turn = << >>
    /\ turn_overlap = FALSE
    /\ turn_stray = FALSE
    /\ granted = << >>
    /\ janitor_alive = TRUE
    /\ janitor_suspended = << >>
    /\ confirmed_agents = {}
    /\ served_ids = {}
    /\ grants_made = 0
    /\ superseded = {}
    /\ grant_suspended = << >>
    /\ hook = HookIdle

\* handle_websocket, lines 89-90: accept and record the channel (a client
\* connects under an id it holds no open channel for)
WsConnect(a) ==
    /\ a \notin handlers
    /\ handlers' = handlers \cup {a}
    /\ Commit([Server EXCEPT !.websockets = KeysSet(@, a)])
    /\ UNCHANGED <<broken, next_id, janitor_alive, janitor_suspended,
                   superseded, grant_suspended, hook>>

\* handle_websocket, lines 92-100: one message through process_agent_message;
\* any exception is caught and ends the loop through disconnect_agent
handle_websocket(s, agent_id, data) ==
    LET s1 == process_agent_message(s, agent_id, data)
    IN  IF s1.raised = None THEN s1
        ELSE [disconnect_agent([s1 EXCEPT !.raised = None], agent_id)
                 EXCEPT !.loop_ended = TRUE]

WsMessage(a, data) ==
    /\ a \in handlers \ broken
    /\ LET s == handle_websocket(Server, a, data)
       IN  /\ Commit(s)
           /\ handlers' = IF s.loop_ended THEN handlers \ {a} ELSE handlers
    /\ UNCHANGED <<broken, next_id, janitor_alive, janitor_suspended,
                   superseded, grant_suspended, hook>>

WsRegister(a) ==
    \E p \in Opt(Priorities \ {DefaultPriority}) :
        WsMessage(a, [type |-> "register", priority |-> p])

WsSpeakRequest(a) ==
    WsMessage(a, [type |-> "speak_request"])

WsStatusUpdate(a) ==
    \E status_data \in StatusData :
        WsMessage(a, [type |-> "status_update", status |-> status_data.status,
                      priority |-> status_data.priority])

WsSpeechComplete(a) ==
    WsMessage(a, [type |-> "speech_complete"])

\* a heartbeat: only last_heartbeat changes, and the clock is not part of the state
WsHeartbeat(a) ==
    WsMessage(a, [type |-> "heartbeat"])

\* a message with no type (data.get("type") is None) or a type the server
\* does not know
UnknownTypes == {None, "speak_denied"}

WsUnknown(a) ==
    \E type \in UnknownTypes : WsMessage(a, [type |-> type])

\* the peer goes away: from now on send_json to it raises
BreakChannel(a) ==
    /\ a \in handlers \ broken
    /\ broken' = broken \cup {a}
    /\ UNCHANGED <<agents, websockets, voice_queue, current_speaker,
                   speaking_start_time, timers, handlers, next_id,
                   open_turn, turn_overlap, turn_stray, granted, janitor_alive,
                   janitor_suspended, confirmed_agents, served_ids,
                   grants_made,
                   superseded, grant_suspended, hook>>

\* handle_websocket, lines 96-97: receive_json raises WebSocketDisconnect
WsClose(a) ==
    /\ a \in handlers
    /\ handlers' = handlers \ {a}
    /\ broken' = broken \ {a}
    /\ Commit(disconnect_agent(Server, a))
    /\ UNCHANGED <<next_id, janitor_alive, janitor_suspended,
                   superseded, grant_suspended, hook>>

\* POST /agents/{agent_id}/speak
RestSpeak(a) ==
    /\ next_id <= MaxRequests
    /\ \E p \in Opt(Priorities), d \in Opt(Durations) :
          LET s == request_speak(Server, a, [priority |-> p, estimated_duration |-> d])
          IN  /\ Commit(s)
              /\ next_id' = IF a \in DOMAIN agents THEN next_id + 1 ELSE next_id
    /\ UNCHANGED <<handlers, broken, janitor_alive, janitor_suspended,
                   superseded, grant_suspended, hook>>

\* POST /agents/{agent_id}/status
RestStatus(a) ==
    /\ \E status_data \in StatusData :
          Commit(update_agent_status(Server, a, status_data))
    /\ UNCHANGED <<handlers, broken, next_id, janitor_alive, janitor_suspended,
                   superseded, grant_suspended, hook>>

\* speech_timeout, lines 235-239: the task wakes up
speech_timeout_NoComplete(s, t) == [s EXCEPT !.timers = @ \ {t}]

speech_timeout(s, t) ==
    LET s1 == [s EXCEPT !.timers = @ \ {t}]
    IN  IF s1.current_speaker = t.agent_id
        THEN handle_speech_complete(s1, t.agent_id, TRUE)
        ELSE s1

TimeoutFire ==
    \E t \in timers :
        /\ Commit(speech_timeout(Server, t))
        /\ UNCHANGED <<handlers, broken, next_id, janitor_alive, janitor_suspended,
                   superseded, grant_suspended, hook>>

\* cleanup_stale_agents, lines 374-383: one sweep.  Which heartbeats have
\* lapsed is up to the clock: any registered agent may be the one found stale
RECURSIVE DisconnectEach(_, _)
DisconnectEach(s, stale_agents) ==
    IF stale_agents = <<>> \/ s.raised # None THEN s
    ELSE DisconnectEach(disconnect_agent(s, Head(stale_agents)), Tail(stale_agents))

JanitorSweep ==
    /\ janitor_alive
    /\ janitor_suspended = << >>
    /\ \E a \in DOMAIN agents :
          LET s == DisconnectEach(Server, <<a>>)
          IN  /\ Commit(s)
              /\ janitor_alive' = (s.raised = None)
    /\ UNCHANGED <<handlers, broken, next_id, janitor_suspended,
                   superseded, grant_suspended, hook>>

Next ==
    \/ \E a \in Agents : WsConnect(a)
    \/ \E a \in Agents : WsRegister(a)
    \/ \E a \in Agents : WsSpeakRequest(a)
    \/ \E a \in Agents : WsStatusUpdate(a)
    \/ \E a \in Agents : WsSpeechComplete(a)
    \/ \E a \in Agents : WsHeartbeat(a)
    \/ \E a \in Agents : WsUnknown(a)
    \/ \E a \in Agents : BreakChannel(a)
    \/ \E a \in Agents : WsClose(a)
    \/ \E a \in Agents : RestSpeak(a)
    \/ \E a \in Agents : RestStatus(a)
    \/ TimeoutFire
    \/ JanitorSweep

Spec == Init /\ [][Next]_vars

\* The handlers are coroutines: a send_json that has to wait hands the event
\* loop to the other handlers.  JanitorBegin / JanitorResume are the sweep of
\* the current speaker in which the janitor waits in the last send of the
\* speech_complete broadcast (lines 383, 304, 255, 361, 353) while other
\* handlers run.
JanitorBegin(a) ==
    /\ janitor_alive
    /\ janitor_suspended = << >>
    /\ a \in DOMAIN agents
    /\ current_speaker = a
    /\ LET s1 == ClearSpeaker([Server EXCEPT !.websockets = Without(@, a)], a)
           message == Event("speech_complete", a, 0, FALSE)
           keys == s1.websockets
       IN  /\ keys # << >>
           /\ LET s2 == SendEach(Emit(s1, message),
                                 SubSeq(keys, 1, Len(keys) - 1), message)
              IN  /\ s2.raised = None
                  /\ Contains(s2.websockets, keys[Len(keys)])
                  /\ Commit(s2)
                  /\ janitor_suspended' = <<a, keys[Len(keys)]>>
    /\ UNCHANGED <<handlers, broken, next_id, janitor_alive,
                   superseded, grant_suspended, hook>>

\* the send returns or raises; handle_speech_complete goes on to line 262 and
\* disconnect_agent to line 307
JanitorResumed ==
    LET a == janitor_suspended[1]
        peer == janitor_suspended[2]
        s1 == IF peer \in broken THEN disconnect_agent(Server, peer) ELSE Server
    IN  RemoveAgent(process_voice_queue(s1), a)

\* an exception ends the janitor's task
JanitorResume ==
    /\ janitor_suspended # << >>
    /\ LET s2 == JanitorResumed
       IN  /\ Commit(s2)
           /\ janitor_alive' = (s2.raised = None)
    /\ janitor_suspended' = << >>
    /\ UNCHANGED <<handlers, broken, next_id,
                   superseded, grant_suspended, hook>>

NextInterleaved ==
    \/ Next
    \/ \E a \in Agents : JanitorBegin(a)
    \/ JanitorResume

InterleavedSpec == Init /\ [][NextInterleaved]_vars

\* handle_websocket, lines 89-90, for a client that connects again under its
\* id while the server has not seen the old channel close: the entry is
\* overwritten with the new socket and the handler of the old channel keeps
\* running (one replaced channel at a time)
WsReconnect(a) ==
    /\ a \in handlers
    /\ superseded = {}
    /\ superseded' = superseded \cup {a}
    /\ broken' = broken \ {a}
    /\ Commit([Server EXCEPT !.websockets = KeysSet(@, a)])
    /\ UNCHANGED <<handlers, next_id, janitor_alive, janitor_suspended,
                   grant_suspended, hook>>

\* handle_websocket, lines 96-97, in the handler of the old channel
SupersededClose(a) ==
    /\ a \in superseded
    /\ superseded' = superseded \ {a}
    /\ Commit(disconnect_agent(Server, a))
    /\ UNCHANGED <<handlers, broken, next_id, janitor_alive, janitor_suspended,
                   grant_suspended, hook>>

NextReconnect ==
    \/ Next
    \/ \E a \in Agents : WsReconnect(a)
    \/ \E a \in Agents : SupersededClose(a)

ReconnectSpec == Init /\ [][NextReconnect]_vars

\* POST /agents/{agent_id}/speak with nobody speaking, up to the await of the
\* send of speak_granted (lines 151-164, 168-182, 193-212): the request is
\* inserted, the head is popped and its agent made the speaker, and the
\* handler waits in send_json while other handlers run
GrantBegin(a) ==
    /\ grant_suspended = << >>
    /\ next_id <= MaxRequests
    /\ a \in DOMAIN agents
    /\ LET voice_request == [id |-> next_id,
                             agent_id |-> a,
                             priority |-> agents[a].priority,
                             estimated_duration |-> DefaultDuration]
           s == [Server EXCEPT !.voice_queue = InsertByPriority(@, voice_request)]
           next_request == Pop(s.voice_queue).request
           agent_id == next_request.agent_id
           s1 == [s EXCEPT !.voice_queue = Pop(@).rest]
           s2 == [s1 EXCEPT !.current_speaker = agent_id,
                            !.speaking_start_time = TimeNow,
                            !.agents = [@ EXCEPT ![agent_id].status = "speaking"],
                            !.granted = Append(@, GrantRecord(s1, next_request))]
       IN  /\ ~NothingToGrant(s)
           /\ Available(s1, agent_id)
           /\ Commit(Emit(s2, Event("speak_granted", agent_id, next_request.id, FALSE)))
           /\ grant_suspended' = <<next_request>>
    /\ next_id' = next_id + 1
    /\ UNCHANGED <<handlers, broken, janitor_alive, janitor_suspended, superseded, hook>>

\* the send returns or raises; process_voice_queue goes on from line 220
GrantResumed ==
    LET next_request == grant_suspended[1]
        agent_id == next_request.agent_id
        s3 == IF agent_id \in broken THEN disconnect_agent(Server, agent_id) ELSE Server
    IN  IF s3.raised # None THEN s3
        ELSE IF agent_id \notin DOMAIN s3.agents
        THEN Raise(s3, "KeyError")                   \* self.agents[agent_id].name
        ELSE
        LET s4 == broadcast_except(s3, agent_id,
                      Event("agent_speaking", agent_id, next_request.id, FALSE))
        IN  IF s4.raised # None THEN s4
            ELSE [s4 EXCEPT !.timers = @ \cup {[request_id |-> next_request.id,
                                                agent_id |-> agent_id]}]

GrantResume ==
    /\ grant_suspended # << >>
    /\ Commit(GrantResumed)
    /\ grant_suspended' = << >>
    /\ UNCHANGED <<handlers, broken, next_id, janitor_alive, janitor_suspended,
                   superseded, hook>>

NextGrantInterleaved ==
    \/ Next
    \/ \E a \in Agents : GrantBegin(a)
    \/ GrantResume

GrantInterleavedSpec == Init /\ [][NextGrantInterleaved]_vars

\* the coordinator's variables
server_vars == <<agents, websockets, voice_queue, current_speaker,
                 speaking_start_time, timers, handlers, broken, next_id,
                 open_turn, turn_overlap, turn_stray, granted, janitor_alive,
                 janitor_suspended, confirmed_agents, served_ids, grants_made,
                 superseded, grant_suspended>>

\* the host calls the hook with some hook type and tool call, in some
\* condition of the client, the endpoint and the channel
HookCall ==
    /\ hook.pc = "idle"
    /\ hook' \in HookCalls
    /\ UNCHANGED server_vars

HookReturn ==
    /\ hook.pc = "called"
    /\ hook' = [hook EXCEPT !.pc = "returned", !.out = voice_coordination_hook(hook)]
    /\ UNCHANGED server_vars

HookNext ==
    /\ hook.pc = "returned"
    /\ hook' = HookIdle
    /\ UNCHANGED server_vars

NextHook ==
    \/ HookCall
    \/ HookReturn
    \/ HookNext

HookSpec == Init /\ [][NextHook]_vars

\* A speech_timeout task that was created does wake up (asyncio.sleep returns).
\* TimeoutFire is the only action that takes a timer out of timers, and it
\* always does, so the steps of TimerWakes are exactly the TimeoutFire steps
\* and TimerWakes is enabled exactly when a timer is armed.
TimerSpace == [request_id : 1..MaxRequests, agent_id : Agents]

TimerWakes == \E t \in timers : timers' \in SUBSET TimerSpace /\ t \notin timers'

FairSpec == Spec /\ WF_timers(TimerWakes)

\* ---------------------------------------------------------------- properties
Speaking == {a \in DOMAIN agents : agents[a].status = "speaking"}

LastGrant == granted[Len(granted)]

\* C1: at most one registered agent has status "speaking", and an agent with
\* status "speaking" is the current speaker.
C1_SingleSpeaker ==
    /\ Cardinality(Speaking) <= 1
    /\ \A a \in Speaking : a = current_speaker

\* C2: no speak_granted is emitted while the turn opened by an earlier
\* speak_granted is still open: between two speak_granted emissions there is a
\* speech_complete emission for the agent of the first.
C2_NoGrantWhileTurnOpen == ~turn_overlap

\* a second turn is open while the timer of an earlier, completed turn is
\* still asleep
C2_Witness ==
    /\ granted # <<>>
    /\ \E t \in timers : t.request_id < LastGrant.request.id
    /\ open_turn = <<LastGrant.request.agent_id, LastGrant.request.id>>

\* C3: the pending queue is ordered by priority, highest first, and within one
\* priority by arrival (request ids are handed out in arrival order).
C3_QueueOrdered ==
    \A i, j \in 1..Len(voice_queue) :
        i < j => \/ voice_queue[i].priority > voice_queue[j].priority
                 \/ /\ voice_queue[i].priority = voice_queue[j].priority
                    /\ voice_queue[i].id < voice_queue[j].id

\* a request that arrived later waits ahead of an earlier one while a third
\* is being served
C3_Witness ==
    /\ current_speaker # None
    /\ \E i, j \in 1..Len(voice_queue) :
           i < j /\ voice_queue[i].id > voice_queue[j].id

\* C4: every grant takes a request whose priority is the highest among the
\* requests pending at that moment.
C4_GrantHighestPriority ==
    \A i \in 1..Len(granted) :
        \A k \in 1..Len(granted[i].pending) :
            granted[i].pending[k].priority <= granted[i].request.priority

\* a request was granted ahead of a lower-priority request that arrived
\* before it and is still waiting
C4_Witness ==
    /\ granted # <<>>
    /\ \E i \in 1..Len(voice_queue) :
           /\ voice_queue[i].id < LastGrant.request.id
           /\ voice_queue[i].priority < LastGrant.request.priority
    /\ current_speaker = LastGrant.request.agent_id

\* C5: of two granted requests with equal priority, the one received earlier
\* is granted first.  A request waits in the queue from its arrival until it
\* is taken, so a request granted ahead of an earlier one of its priority
\* that is granted later would leave that earlier request pending: no grant
\* leaves behind a request of the same priority that arrived before it.
C5_FifoWithinPriority ==
    \A i \in 1..Len(granted) :
        \A k \in 1..Len(granted[i].pending) :
            granted[i].pending[k].priority = granted[i].request.priority
                => granted[i].pending[k].id > granted[i].request.id

\* a grant that left a later request of the same priority waiting, made
\* after an earlier turn (whose timer is still asleep)
C5_Witness ==
    /\ granted # <<>>
    /\ \E k \in 1..Len(LastGrant.pending) :
           LastGrant.pending[k].priority = LastGrant.request.priority
    /\ \E t \in timers : t.request_id < LastGrant.request.id

\* C6: if the queue is non-empty then a current speaker is set.
C6_QueueImpliesSpeaker == voice_queue # <<>> => current_speaker # None

\* C7: every speak_granted emission is eventually followed by exactly one
\* speech_complete emission for the same agent before any further grant
\* (armed timers eventually fire).
C7_GrantCompleteBalance ==
    /\ [](~turn_overlap /\ ~turn_stray)
    /\ \A a \in Agents, r \in 1..MaxRequests :
           (open_turn = <<a, r>>) ~> (open_turn # <<a, r>>)

\* a granted agent that has gone silent: its channel is broken, its handler
\* has not noticed, and only the timeout is left to end the turn
C7_Witness ==
    /\ open_turn # <<>>
    /\ open_turn[1] \in broken
    /\ \E t \in timers : t.request_id = open_turn[2]

\* C8: current_speaker is set if and only if speaking_start_time is set.
C8_SpeakerIffStartTime == (current_speaker # None) <=> (speaking_start_time # None)

\* a turn was granted and has ended: both fields are cleared again
C8_Witness ==
    /\ timers # {}
    /\ current_speaker = None
    /\ speaking_start_time = None

\* C9: no status snapshot shows current_speaker set while the count of agents
\* with status "speaking" is 0.
C9_SnapshotConsistent ==
    LET status == get_coordination_status(Server)
    IN  status.current_speaker # None => status.agents_by_status["speaking"] > 0

\* C10: a speak_request over the duplex channel from a registered agent has the
\* effect of the speak endpoint with the same fields, and the agent stays
\* registered and connected.
C10_ChannelSpeakLikeEndpoint ==
    \A a \in (handlers \ broken) \cap DOMAIN agents :
        \A p \in Opt(Priorities), d \in Opt(Durations) :
            next_id <= MaxRequests =>
                LET fields == [priority |-> p, estimated_duration |-> d]
                    ws == handle_websocket(Server, a,
                              [type |-> "speak_request", priority |-> p,
                               estimated_duration |-> d])
                    rest == request_speak(Server, a, fields)
                IN  /\ ws.agents = rest.agents
                    /\ ws.voice_queue = rest.voice_queue
                    /\ ws.current_speaker = rest.current_speaker
                    /\ ws.websockets = rest.websockets
                    /\ ~ws.loop_ended

\* C11: the timeout armed for a request ends a turn only if that turn is the
\* request's: while a later turn is open, the timer of an earlier request
\* wakes up without ending the turn and without emitting anything.
C11_LateTimeoutKeepsTurn ==
    \A t \in timers :
        (current_speaker # None /\ open_turn # <<>>
            /\ open_turn[1] = current_speaker /\ t.request_id < open_turn[2])
        => LET s == speech_timeout(Server, t)
           IN  /\ s.current_speaker = current_speaker
               /\ s.speaking_start_time = speaking_start_time
               /\ s.emitted = <<>>

\* the requests an operation granted, in order
GrantedRequests(s) == [i \in 1..Len(s.granted) |-> s.granted[i].request]

\* an agent that is registered and whose channel is recorded and takes sends
Deliverable(a) == a \in DOMAIN agents /\ Contains(websockets, a) /\ a \notin broken

\* what the claim says of the wake-up of timer t while its agent is speaking
TimeoutEndsTurn(t) ==
    LET agent_id == t.agent_id
        s == speech_timeout(Server, t)
    IN  /\ s.raised = None
        /\ s.emitted # <<>>
        /\ s.emitted[1] = Event("speech_complete", agent_id, 0, TRUE)
        /\ agent_id \in DOMAIN s.agents
        /\ s.current_speaker = agent_id
               => \E i \in 1..Len(s.granted) : s.granted[i].request.agent_id = agent_id
        /\ agent_id \in DOMAIN s.agents
               => s.agents[agent_id].status =
                      (IF s.current_speaker = agent_id THEN "speaking" ELSE "idle")
        /\ \A i \in 1..Len(voice_queue) :
               voice_queue[i].agent_id = agent_id
                   => \/ Contains(s.voice_queue, voice_queue[i])
                      \/ Contains(GrantedRequests(s), voice_queue[i])
        /\ s.voice_queue # <<>> => s.current_speaker # None
        /\ (\E i \in 1..Len(voice_queue) : Deliverable(voice_queue[i].agent_id))
               => s.current_speaker # None
        /\ s.current_speaker = None
               => \A a \in Agents :
                      (Deliverable(a) /\ a \in DOMAIN s.agents)
                          => request_speak([s EXCEPT !.granted = <<>>], a,
                                 [priority |-> Absent, estimated_duration |-> Absent]
                                 ).current_speaker = a

\* C12: when the speech timeout fires for the agent that is still the current
\* speaker (and every channel takes the sends), the turn is ended with
\* speech_complete{timeout:true}, the agent is idle and still registered with
\* its queued requests, and the next pending request, or else a new submit,
\* is granted.
C12_TimeoutEndsTurn ==
    \A t \in timers :
        (t.agent_id = current_speaker /\ broken = {}) => TimeoutEndsTurn(t)

\* the place of request x in queue q
Pos(q, x) == CHOOSE i \in 1..Len(q) : q[i] = x

\* what holds of the server fields s once disconnect_agent(agent_id) has run
Disconnected(s, agent_id) ==
    /\ agent_id \notin DOMAIN s.agents
    /\ ~Contains(s.websockets, agent_id)
    /\ \A i \in 1..Len(s.voice_queue) : s.voice_queue[i].agent_id # agent_id
    /\ s.current_speaker # agent_id
    /\ \A i \in 1..Len(s.voice_queue) : Contains(voice_queue, s.voice_queue[i])
    /\ \A i, j \in 1..Len(s.voice_queue) :
           i < j => Pos(voice_queue, s.voice_queue[i]) < Pos(voice_queue, s.voice_queue[j])

\* the messages a client may send on its channel
Messages ==
    {[type |-> "register", priority |-> p] : p \in Opt(Priorities)}
        \cup {[type |-> "speak_request"], [type |-> "speech_complete"],
              [type |-> "heartbeat"]}
        \cup {[type |-> "status_update", status |-> d.status, priority |-> d.priority] :
                  d \in StatusData}

\* C13: after disconnect_agent(a) has run (channel close, janitor, or a
\* handler ended by an exception), a is not registered, has no channel entry,
\* no queued request and is not the current speaker, and the requests left in
\* the queue are in the order they had; no queued request and no speaker
\* belongs to an unregistered agent.
C13_DisconnectCleansUp ==
    /\ \A a \in Agents : Disconnected(disconnect_agent(Server, a), a)
    /\ \A a \in handlers \ broken : \A data \in Messages :
           LET s == handle_websocket(Server, a, data)
           IN  s.loop_ended => Disconnected(s, a)
    /\ \A i \in 1..Len(voice_queue) : voice_queue[i].agent_id \in DOMAIN agents
    /\ current_speaker # None => current_speaker \in DOMAIN agents

\* the speaker has been disconnected (its timer is still asleep) and the turn
\* went to an agent that was waiting, with a request still queued
C13_Witness ==
    /\ \E t \in timers : t.agent_id \notin DOMAIN agents /\ t.agent_id \notin handlers
    /\ current_speaker # None
    /\ voice_queue # <<>>

\* e1 is emitted before e2
Before(evs, e1, e2) ==
    \E i, j \in 1..Len(evs) : i < j /\ evs[i] = e1 /\ evs[j] = e2

\* the current speaker's channel is open and the head of the queue is a
\* request of another agent, which is registered and takes sends
SpeakerClosesWhileQueued(a) ==
    /\ a \in handlers
    /\ current_speaker = a
    /\ voice_queue # <<>>
    /\ Head(voice_queue).agent_id # a
    /\ Deliverable(Head(voice_queue).agent_id)

GrantSendFailed(s) ==
    \E i \in 1..Len(s.granted) : s.granted[i].request.agent_id \in broken

\* the failed grant was absorbed: no exception leaves the operation, the
\* agent's turn is over, and a request left pending has a speaker
GrantFailureAbsorbed(s) ==
    GrantSendFailed(s) =>
        /\ s.raised = None
        /\ s.current_speaker \notin broken
        /\ s.voice_queue # <<>> => s.current_speaker # None

\* C15: if sending speak_granted to the granted agent fails, the turn of that
\* agent is completed, the next pending request is granted, and the operation
\* that triggered the grant (submit, complete, disconnect, timeout) finishes
\* without raising.
C15_GrantSendFailureAbsorbed ==
    /\ \A a \in DOMAIN agents :
           GrantFailureAbsorbed(request_speak(Server, a,
               [priority |-> Absent, estimated_duration |-> Absent]))
    /\ \A a \in Agents :
           /\ GrantFailureAbsorbed(handle_speech_complete(Server, a, FALSE))
           /\ GrantFailureAbsorbed(disconnect_agent(Server, a))
    /\ \A t \in timers : GrantFailureAbsorbed(speech_timeout(Server, t))

\* the operation left every field of the server as it was and emitted nothing
NoEffect(s) ==
    /\ s.agents = agents
    /\ s.websockets = websockets
    /\ s.voice_queue = voice_queue
    /\ s.current_speaker = current_speaker
    /\ s.speaking_start_time = speaking_start_time
    /\ s.timers = timers
    /\ s.emitted = <<>>

\* C16: a speak or status request naming an agent id that is not registered
\* fails with not-found, leaves the queue, current_speaker,
\* speaking_start_time and every agent record unchanged and emits no event.
C16_UnknownAgentRejected ==
    \A a \in Agents \ DOMAIN agents :
        /\ \A p \in Opt(Priorities), d \in Opt(Durations) :
               LET s == request_speak(Server, a, [priority |-> p, estimated_duration |-> d])
               IN  s.raised = "HTTPException" /\ NoEffect(s)
        /\ \A status_data \in StatusData :
               LET s == update_agent_status(Server, a, status_data)
               IN  /\ s.raised = None
                   /\ s.response = [kind |-> "error", detail |-> "Agent not found"]
                   /\ NoEffect(s)

\* an id is not registered while another agent speaks, a request waits and a
\* channel is broken: a request naming that id has something to disturb
C16_Witness ==
    /\ Agents \ DOMAIN agents # {}
    /\ current_speaker # None
    /\ voice_queue # <<>>
    /\ broken \cap DOMAIN agents # {}

\* C17: speech_complete from an agent that is not the current speaker (also
\* when nobody speaks) is ignored: current_speaker, speaking_start_time, the
\* queue and the agents are unchanged and no speech_complete is emitted.
C17_StrayCompleteIgnored ==
    \A a \in Agents :
        a # current_speaker =>
            /\ NoEffect(handle_speech_complete(Server, a, FALSE))
            /\ a \in handlers \ broken =>
                   LET s == handle_websocket(Server, a, [type |-> "speech_complete"])
                   IN  NoEffect(s) /\ ~s.loop_ended

\* an agent whose own turn is over (its timer still asleep) can send a late
\* speech_complete while another agent speaks and a request waits
C17_Witness ==
    \E a \in (handlers \ broken) \cap DOMAIN agents :
        /\ current_speaker \notin {a, None}
        /\ voice_queue # <<>>
        /\ \E t \in timers : t.agent_id = a

\* C18: a status_update carrying status "speaking" from a client that is not
\* the current speaker is rejected: the agent's status does not become
\* "speaking".
C18_ClientSpeakingRejected ==
    \A a \in (handlers \ broken) \cap DOMAIN agents :
        (a # current_speaker /\ agents[a].status # "speaking") =>
            LET s == handle_websocket(Server, a,
                         [type |-> "status_update", status |-> {"speaking"},
                          priority |-> Absent])
            IN  a \in DOMAIN s.agents => s.agents[a].status # "speaking"

\* the request that request_speak builds in the current state (lines 154-162)
NewRequest(a, p, d) ==
    [id |-> next_id, agent_id |-> a,
     priority |-> Get(p, agents[a].priority),
     estimated_duration |-> Get(d, DefaultDuration)]

\* C19: submit returns queue_position 0 if and only if the submitted request
\* was immediately taken as the current speaker's request; otherwise it
\* returns the request's 1-based position in the queue.
C19_PositionZeroIffGranted ==
    \A a \in DOMAIN agents : \A p \in Opt(Priorities), d \in Opt(Durations) :
        LET s == request_speak(Server, a, [priority |-> p, estimated_duration |-> d])
            r == NewRequest(a, p, d)
            taken == /\ Contains(GrantedRequests(s), r)
                     /\ s.current_speaker = a
        IN  s.raised = None =>
                /\ s.response.queue_position = 0 <=> taken
                /\ ~taken => /\ s.response.queue_position \in 1..Len(s.voice_queue)
                             /\ s.voice_queue[s.response.queue_position] = r

\* C20 as stated: the queue position reported at submit time equals the
\* 1-based index of the request in the queue immediately after its insertion,
\* in every reachable state in which submit is called.
C20_PositionIsInsertionIndex ==
    \A a \in DOMAIN agents : \A p \in Opt(Priorities), d \in Opt(Durations) :
        LET s == request_speak(Server, a, [priority |-> p, estimated_duration |-> d])
            r == NewRequest(a, p, d)
        IN  s.raised = None =>
                s.response.queue_position = Pos(InsertByPriority(voice_queue, r), r)

\* C20 amended: when submit is called while an agent is speaking, the
\* reported position is the 1-based index of the request right after its
\* insertion, and the queue is left as the insertion made it; when nobody is
\* speaking the position is taken after the drain: 0 for a request no longer
\* queued, else its index in the queue the drain left.
C20_PositionAfterDrain ==
    \A a \in DOMAIN agents : \A p \in Opt(Priorities), d \in Opt(Durations) :
        LET s == request_speak(Server, a, [priority |-> p, estimated_duration |-> d])
            r == NewRequest(a, p, d)
            inserted == InsertByPriority(voice_queue, r)
        IN  s.raised = None =>
                /\ current_speaker # None =>
                       /\ s.voice_queue = inserted
                       /\ s.response.queue_position = Pos(inserted, r)
                       /\ s.response.queue_position > 0
                /\ current_speaker = None =>
                       IF Contains(s.voice_queue, r)
                       THEN s.voice_queue[s.response.queue_position] = r
                       ELSE s.response.queue_position = 0

\* the request submitted last waits at position 2 behind a speaker
C20_Witness ==
    /\ current_speaker # None
    /\ Len(voice_queue) = 2
    /\ voice_queue[2].id = next_id - 1
    /\ granted = <<>>

\* the ids of the requests in queue q
QueuedIds(q) == {q[i].id : i \in 1..Len(q)}

\* C21: estimate_wait for a request id that is not in the queue is 0; so the
\* estimated_wait that submit returns for a request granted at once is 0.
C21_WaitZeroWhenNotQueued ==
    /\ \A request_id \in (1..MaxRequests) \ QueuedIds(voice_queue) :
           estimate_wait_time(Server, request_id) = 0
    /\ \A a \in DOMAIN agents : \A p \in Opt(Priorities), d \in Opt(Durations) :
           LET s == request_speak(Server, a, [priority |-> p, estimated_duration |-> d])
           IN  (s.raised = None /\ ~Contains(s.voice_queue, NewRequest(a, p, d)))
                   => s.response.estimated_wait = 0

\* the sum of estimated_duration over the first n requests of q
RECURSIVE SumDurations(_, _)
SumDurations(q, n) ==
    IF n = 0 THEN 0 ELSE SumDurations(q, n - 1) + q[n].estimated_duration

\* C22: for a request in the queue, estimate_wait is 5 if a current speaker
\* exists (0 otherwise) plus the sum of estimated_duration of the requests
\* strictly ahead of it: not its own duration, nor that of any request behind.
C22_WaitOfQueuedRequest ==
    /\ \A i \in 1..Len(voice_queue) :
           estimate_wait_time(Server, voice_queue[i].id)
               = (IF current_speaker # None THEN 5 ELSE 0) + SumDurations(voice_queue, i - 1)
    /\ \A a \in DOMAIN agents : \A p \in Opt(Priorities), d \in Opt(Durations) :
           LET s == request_speak(Server, a, [priority |-> p, estimated_duration |-> d])
               r == NewRequest(a, p, d)
           IN  (s.raised = None /\ Contains(s.voice_queue, r))
                   => s.response.estimated_wait
                          = (IF s.current_speaker # None THEN 5 ELSE 0)
                                + SumDurations(s.voice_queue, s.response.queue_position - 1)

\* two requests wait behind a speaker: the wait of the second counts the
\* speaker and the first, and the wait of the first only the speaker
C22_Witness ==
    /\ current_speaker # None
    /\ Len(voice_queue) = 2
    /\ estimate_wait_time(Server, voice_queue[1].id) = 5
    /\ estimate_wait_time(Server, voice_queue[2].id) = 15

\* the status values clients send: the four of the Agent record and the one
\* the voice hook announces before it asks to speak
SentStatuses == {"idle", "speaking", "listening", "busy", "requesting_speech"}

AgentStatuses == {"idle", "speaking", "listening", "busy"}

\* the sum of the agents_by_status counts of a snapshot
SumOfCounts(status) ==
    status.agents_by_status["idle"] + status.agents_by_status["speaking"]
        + status.agents_by_status["listening"] + status.agents_by_status["busy"]

\* C23: every registered agent's status is one of idle, speaking, listening,
\* busy, also after any status_update a client sends, so the four
\* agents_by_status counts of a snapshot sum to total_agents.
C23_StatusInDomain ==
    /\ \A a \in DOMAIN agents : agents[a].status \in AgentStatuses
    /\ \A a \in (handlers \ broken) \cap DOMAIN agents : \A st \in SentStatuses :
           LET s == handle_websocket(Server, a,
                        [type |-> "status_update", status |-> {st}, priority |-> Absent])
               status == get_coordination_status(s)
           IN  /\ \A x \in DOMAIN s.agents : s.agents[x].status \in AgentStatuses
               /\ SumOfCounts(status) = status.total_agents

\* priority values outside the documented range 1..10 that a client can put
\* in a register, status_update or speak request
OutOfRangePriorities == {0, 11}

\* C24: every agent priority and every queued request priority the
\* coordinator holds is an integer in 1..10: out-of-range values supplied by
\* register, status_update or a speak request are clamped into that range.
C24_PriorityClamped ==
    /\ \A a \in DOMAIN agents : agents[a].priority \in 1..10
    /\ \A i \in 1..Len(voice_queue) : voice_queue[i].priority \in 1..10
    /\ \A a \in handlers \ broken : \A p \in OutOfRangePriorities :
           LET s == handle_websocket(Server, a, [type |-> "register", priority |-> {p}])
           IN  a \in DOMAIN s.agents => s.agents[a].priority \in 1..10
    /\ \A a \in DOMAIN agents : \A p \in OutOfRangePriorities :
           /\ LET s == update_agent_status(Server, a, [status |-> Absent, priority |-> {p}])
              IN  a \in DOMAIN s.agents => s.agents[a].priority \in 1..10
           /\ LET s == request_speak(Server, a, [priority |-> {p}, estimated_duration |-> Absent])
              IN  \A i \in 1..Len(s.voice_queue) : s.voice_queue[i].priority \in 1..10

\* C25: processing any inbound message from a registered agent (register,
\* heartbeat, speak_request, status_update, speech_complete) sets that agent's
\* last_heartbeat to the time of receipt.
C25_MessageIsHeartbeat ==
    \A a \in (handlers \ broken) \cap DOMAIN agents : \A data \in Messages :
        LET s == handle_websocket(Server, a, data)
        IN  a \in DOMAIN s.agents => a \in s.touched

\* C28: an inbound message with a missing or unknown type changes no
\* coordinator state (agents, queue, current_speaker) and leaves the sender's
\* channel open and the sender registered.
C28_MalformedMessageIgnored ==
    \A a \in handlers \ broken : \A type \in UnknownTypes :
        LET s == handle_websocket(Server, a, [type |-> type])
        IN  NoEffect(s) /\ ~s.loop_ended /\ s.raised = None

\* the current speaker, with a request of its own still queued, has a running
\* handler: a malformed message from it has state to disturb
C28_Witness ==
    \E a \in handlers \ broken :
        /\ current_speaker = a
        /\ \E i \in 1..Len(voice_queue) : voice_queue[i].agent_id = a

\* C29: the result submit returns for a request that is granted immediately
\* (no speaker active, agent reachable) carries granted = true.
C29_ImmediateGrantReported ==
    \A a \in Agents :
        (Deliverable(a) /\ current_speaker = None /\ voice_queue = <<>>) =>
            \A p \in Opt(Priorities), d \in Opt(Durations) :
                LET s == request_speak(Server, a, [priority |-> p, estimated_duration |-> d])
                IN  /\ s.raised = None
                    /\ s.current_speaker = a
                    /\ "granted" \in DOMAIN s.response
                    /\ s.response.granted = TRUE

\* three submits, one after another, to a coordinator with no speaker and an
\* empty queue: who submits, with which priorities
Submits ==
    {sub \in [1..3 -> [agent_id : {a \in Agents : Deliverable(a)}, priority : Priorities]] :
        \E i, j \in 1..3 : sub[i].agent_id # sub[j].agent_id}

SubmitRequest(sub, i) ==
    [id |-> next_id + i - 1, agent_id |-> sub[i].agent_id,
     priority |-> sub[i].priority, estimated_duration |-> DefaultDuration]

\* the server after the first n submits of sub
RECURSIVE AfterSubmits(_, _)
AfterSubmits(sub, n) ==
    IF n = 0 THEN Server
    ELSE queue_voice_request(AfterSubmits(sub, n - 1), SubmitRequest(sub, n))

\* a request of sub with the highest priority
HasHighestPriority(sub, i) == \A j \in 1..3 : sub[j].priority <= sub[i].priority

C26_JanitorKeepsSweeping == janitor_alive

\* C27: no agent_disconnected is emitted twice for one registration: when the
\* channel of an agent closes or the janitor sweeps an agent, every
\* agent_disconnected emitted is for an agent whose registration_confirmed has
\* not been followed by an agent_disconnected yet.
C27_DisconnectedOncePerRegistration ==
    /\ \A a \in handlers : ~Registrations(disconnect_agent(Server, a)).unmatched
    /\ \A a \in DOMAIN agents :
          ~Registrations(DisconnectEach(Server, <<a>>)).unmatched

\* the server fields when handle_speech_complete of the current speaker calls
\* process_voice_queue (line 262)
DrainInput == broadcast(ClearSpeaker(Server, current_speaker),
                        Event("speech_complete", current_speaker, 0, FALSE))

\* C33: a drain that pops requests of unavailable agents discards them and
\* goes on: the first queued request of an available agent is granted in the
\* same drain and the requests behind it stay queued.
C33_DrainSkipsUnavailable ==
    current_speaker # None =>
        LET s == DrainInput
            d == process_voice_queue(s)
        IN  \A k \in 1..Len(s.voice_queue) :
                (/\ s.raised = None
                 /\ Available(s, s.voice_queue[k].agent_id)
                 /\ \A j \in 1..(k - 1) : ~Available(s, s.voice_queue[j].agent_id))
                    => /\ d.granted # << >>
                       /\ d.granted[1].request = s.voice_queue[k]
                       /\ d.current_speaker = s.voice_queue[k].agent_id

\* C34: every request is queued, being served or terminated, and in one of
\* these only: no request id occurs twice in the queue, the request being
\* served is not queued, and no request is granted more than once (no granted
\* request is queued again, and each grant is of a request not granted before).
C34_RequestInOneState ==
    /\ \A i, j \in 1..Len(voice_queue) :
           voice_queue[i].id = voice_queue[j].id => i = j
    /\ \A i \in 1..Len(voice_queue) :
           /\ open_turn # << >> => voice_queue[i].id # open_turn[2]
           /\ voice_queue[i].id \notin served_ids
    /\ grants_made = Cardinality(served_ids)

\* one request is being served, one is queued and one is terminated
C34_Witness ==
    /\ open_turn # << >>
    /\ voice_queue # << >>
    /\ served_ids \ {open_turn[2]} # {}

\* a send of the operation failed: a peer whose channel is broken lost its
\* channel entry
SendFailed(s) ==
    \E b \in broken : Contains(websockets, b) /\ ~Contains(s.websockets, b)

\* the failure was isolated: the operation ended without an exception and
\* removed nobody but the peers whose sends failed (and its own subject)
SendFailureIsolated(s, subject) ==
    SendFailed(s) =>
        /\ s.raised = None
        /\ (DOMAIN agents \ DOMAIN s.agents) \subseteq (broken \cup subject)

\* C36: a send failure to a peer during an operation only disconnects that
\* peer and the operation completes its own state changes: no exception
\* leaves it, a submitted request is granted or queued unless its agent was
\* the failing peer, and disconnect(a) ends with a out of the registry and of
\* the queue.
C36_SendFailureIsolated ==
    /\ \A a \in DOMAIN agents :
           next_id <= MaxRequests =>
               LET s == request_speak(Server, a,
                            [priority |-> Absent, estimated_duration |-> Absent])
               IN  /\ SendFailureIsolated(s, {})
                   /\ (SendFailed(s) /\ a \notin broken) =>
                          \/ \E i \in 1..Len(s.voice_queue) : s.voice_queue[i].id = next_id
                          \/ \E i \in 1..Len(s.granted) : s.granted[i].request.id = next_id
    /\ \A a \in Agents :
           /\ SendFailureIsolated(handle_speech_complete(Server, a, FALSE), {})
           /\ LET s == disconnect_agent(Server, a)
              IN  /\ SendFailureIsolated(s, {a})
                  /\ (SendFailed(s) /\ a \in DOMAIN agents) =>
                         /\ a \notin DOMAIN s.agents
                         /\ \A i \in 1..Len(s.voice_queue) : s.voice_queue[i].agent_id # a
    /\ \A a \in DOMAIN agents, status_data \in StatusData :
           SendFailureIsolated(update_agent_status(Server, a, status_data), {})
    /\ \A t \in timers : SendFailureIsolated(speech_timeout(Server, t), {})

\* C38: in every reachable state each queued request's agent is registered,
\* and the current speaker, when set, is registered and has a channel entry.
C38_ReferentialIntegrity ==
    /\ \A i \in 1..Len(voice_queue) : voice_queue[i].agent_id \in DOMAIN agents
    /\ current_speaker # None =>
           /\ current_speaker \in DOMAIN agents
           /\ Contains(websockets, current_speaker)

\* C39: an agent has reconnected under its id and its old channel is still
\* open; after it registers again on the new channel and queues a request,
\* the close of the old channel leaves the new registration, the new channel
\* entry and that request in place.
C39_OldCloseKeepsNewRegistration ==
    \A a \in (superseded \cap handlers) \ broken :
        next_id <= MaxRequests =>
            LET registered == handle_websocket(Server, a,
                                  [type |-> "register", priority |-> Absent])
                queued == request_speak(registered, a,
                              [priority |-> Absent, estimated_duration |-> Absent])
                closed == disconnect_agent(queued, a)
            IN  queued.raised = None =>
                    /\ a \in DOMAIN closed.agents
                    /\ Contains(closed.websockets, a)
                    /\ \A i \in 1..Len(queued.voice_queue) :
                           Contains(closed.voice_queue, queued.voice_queue[i])

\* C35: operations are serialized: a disconnect of the speaker that waits in
\* a send while other operations run ends as a whole disconnect does, without
\* an error, its agent not having been removed by another operation meanwhile.
C35_OperationsSerialized ==
    janitor_suspended # << >> =>
        /\ janitor_suspended[1] \in DOMAIN agents
        /\ JanitorResumed.raised = None

\* C37: every agent_speaking event is emitted while its agent is the current
\* speaker and the turn of its request is open: a grant that waited in the
\* send of speak_granted does not announce a turn that has been completed.
C37_SpeakingWhileSpeaker ==
    grant_suspended # << >> =>
        \A i \in 1..Len(GrantResumed.emitted) :
            LET e == GrantResumed.emitted[i]
            IN  e.type = "agent_speaking" =>
                    /\ current_speaker = e.agent
                    /\ open_turn = <<e.agent, e.request_id>>

\* the speak result the returned hook call got
HookRequestResult == Client_request_speak(hook.connected, hook.http)

\* C31: the hook returns its input unchanged for hook types other than
\* tool_call, for tools that are not voice tools and when obtaining the client
\* raises; for a voice tool call it sets skip_execution exactly when the speak
\* result is not granted, or is granted without fallback and
\* wait_for_permission returns false.
C31_HookSkipsExactlyWhenDenied ==
    hook.pc = "returned" =>
        IF \/ hook.hook_type # "tool_call"
           \/ ~(\E i \in 1..Len(hook.tool_name) :
                    hook.tool_name[i] \in {"converse", "voice"})
           \/ hook.client_raises
        THEN hook.out.result = "data" /\ ~hook.out.skip_execution
        ELSE hook.out.skip_execution <=>
                 \/ HookRequestResult.granted # {TRUE}
                 \/ /\ HookRequestResult.granted = {TRUE}
                    /\ HookRequestResult.fallback # {TRUE}
                    /\ ~wait_for_permission(hook.connected, hook.inbox)

\* a voice tool call was granted without fallback, then denied on the channel
C31_Witness ==
    /\ hook.pc = "returned"
    /\ hook.out.skip_execution
    /\ hook.out.result = "denied"
    /\ hook.http.granted = {TRUE}

\* C32: wait_for_permission returns true at the first speak_granted, false
\* only when a speak_denied comes first, skips the other message types, and
\* returns true when not connected, on a receive timeout and on a receive
\* error.
C32_WaitFallsBackToAllow ==
    hook.pc # "idle" =>
        LET permitted == wait_for_permission(hook.connected, hook.inbox)
            Decisive(i) == hook.inbox[i] \in {"speak_granted", "speak_denied", "error"}
        IN  ~permitted <=>
                /\ hook.connected
                /\ \E i \in 1..Len(hook.inbox) :
                       /\ hook.inbox[i] = "speak_denied"
                       /\ \A j \in 1..(i - 1) : ~Decisive(j)

\* a connected client skipped another agent's event and then was denied
C32_Witness ==
    /\ hook.pc = "returned"
    /\ hook.connected
    /\ hook.inbox = <<"agent_speaking", "speak_denied">>
    /\ ~wait_for_permission(hook.connected, hook.inbox)

\* what the hook's requests.post gets from the speak endpoint: the JSON body
\* of queue_voice_request (request_id, queue_position, estimated_wait) or an
\* error status
HttpOf(s) ==
    IF s.raised = "HTTPException"
    THEN [status |-> "404", granted |-> Absent, fallback |-> Absent]
    ELSE IF s.raised # None
    THEN [status |-> "500", granted |-> Absent, fallback |-> Absent]
    ELSE [status |-> "200", granted |-> Absent, fallback |-> Absent]

\* the speak endpoint as the hook of client a calls it: status_update on the
\* channel (hook line 240), then the POST (hook lines 83-92)
HookSubmit(a) ==
    request_speak(
        handle_websocket(Server, a,
            [type |-> "status_update", status |-> {"requesting_speech"},
             priority |-> Absent]),
        a, [priority |-> {DefaultPriority}, estimated_duration |-> {DefaultDuration}])

\* the hook call of client a for a voice tool, with speak_granted delivered on
\* the channel
HookOutcome(a) ==
    voice_coordination_hook(
        [pc |-> "called", hook_type |-> "tool_call", tool_name |-> <<"converse">>,
         client_raises |-> FALSE, connected |-> TRUE, http |-> HttpOf(HookSubmit(a)),
         inbox |-> <<"speak_granted">>, out |-> Unchanged])

\* C40: when the hook of a connected, registered client submits a voice tool
\* call and the server accepts the request, the hook lets the tool call
\* execute and schedules speech_complete, so the turn is ended by the client.
C40_HookCompletesItsTurn ==
    \A a \in (handlers \ broken) \cap DOMAIN agents :
        (/\ next_id <= MaxRequests
         /\ Contains(websockets, a)
         /\ HookSubmit(a).raised = None
         /\ HookSubmit(a).response.kind = "queued")
            => /\ ~HookOutcome(a).skip_execution
               /\ HookOutcome(a).notify
====
